---- MODULE Spec2Model ----
(***************************************************************************)
(* The sensor-network observation query engine of plenario:                *)
(* plenario/sensor_network/api/sensor_networks.py (planner, parallel       *)
(* fan-out, merge/format, chunked datadump job) over the metadata catalog  *)
(* of plenario/models/SensorNetwork.py.                                    *)
(*                                                                         *)
(* Python values are modelled as follows.  A dict is a function from its    *)
(* keys; an optional value is None == <<>> or Some(v) == <<v>>; a string    *)
(* whose case matters is a name with its lower-cased form given by Lower;   *)
(* a dotted key "feature.property" is the tuple of its parts; an ISO-8601   *)
(* string is the pair <<wall clock, UTC offset suffix>>.                    *)
(***************************************************************************)
EXTENDS Integers, Sequences, FiniteSets, TLC

(***************************************************************************)
(* Bounds of the model.                                                    *)
(***************************************************************************)
MaxStart == 1       \* start_datetime ranges over 0..MaxStart
MaxLimit == 2       \* the observation query's limit ranges over 0..MaxLimit
MaxOffset == 1      \* the observation query's offset ranges over 0..MaxOffset

(***************************************************************************)
(* Generic helpers.                                                        *)
(***************************************************************************)
None == <<>>
Some(v) == <<v>>
IsNone(x) == Len(x) = 0
Val(x) == x[1]

Range(s) == {s[i] : i \in DOMAIN s}

Min(a, b) == IF a <= b THEN a ELSE b
Max(a, b) == IF a >= b THEN a ELSE b

\* dict.pop(k) / del d[k] on a dict that holds k
Pop(d, k) == [x \in (DOMAIN d) \ {k} |-> d[x]]
\* d[k] = v
Put(d, k, v) == [x \in (DOMAIN d) \cup {k} |-> IF x = k THEN v ELSE d[x]]
\* d.update(e)
Update(d, e) == [x \in (DOMAIN d) \cup (DOMAIN e) |-> IF x \in DOMAIN e THEN e[x] ELSE d[x]]
\* d.get(k)
Get(d, k) == IF k \in DOMAIN d THEN d[k] ELSE None

\* str.lower() / sqlalchemy func.lower on the names the model uses
Lower(s) ==
    CASE s = "NET" -> "net"
      [] s = "N1" -> "n1"
      [] s = "N2" -> "n2"
      [] s = "TMP112" -> "tmp112"
      [] s = "BMP180" -> "bmp180"
      [] s = "Temperature" -> "temperature"
      [] s = "Humidity" -> "humidity"
      [] OTHER -> s

LowerAll(seq) == [i \in DOMAIN seq |-> Lower(seq[i])]

\* the sequences over S that list every element of the finite set S once
Perms(S) == {p \in [1..Cardinality(S) -> S] : Range(p) = S}

\* the strictly increasing index sequences of length k into 1..n
SubIndex(n, k) == {p \in [1..k -> 1..n] : \A i \in 1..k, j \in 1..k : i < j => p[i] < p[j]}

RECURSIVE SumSeq(_)
SumSeq(s) == IF s = <<>> THEN 0 ELSE Head(s) + SumSeq(Tail(s))

(***************************************************************************)
(* The metadata catalog (postgres): rows of sensor__node_metadata with the  *)
(* sensors attached through sensor__sensor_to_node, and rows of             *)
(* sensor__sensor_metadata.  Names are stored in mixed case.                *)
(***************************************************************************)
NodeMeta ==
    { [id |-> "N1", sensor_network |-> "net",   location |-> "p1", sensors |-> {"TMP112", "bmp180"}],
      [id |-> "n2", sensor_network |-> "net",   location |-> "p2", sensors |-> {"hih"}],
      [id |-> "n9", sensor_network |-> "other", location |-> "p1", sensors |-> {"bmp180"}] }

NetworkMeta == {[name |-> "net"], [name |-> "other"]}

FeatureMeta ==
    { [name |-> "temperature", observed_properties |-> <<"temperature">>],
      [name |-> "pressure",    observed_properties |-> <<"pressure">>],
      [name |-> "humidity",    observed_properties |-> <<"humidity">>] }

\* observed_properties: raw property name -> "<feature>.<property>"
Sensor ==
    { [name |-> "TMP112", observed_properties |-> [t |-> <<"Temperature", "temperature">>]],
      [name |-> "bmp180", observed_properties |-> [t |-> <<"temperature", "temperature">>,
                                                    p |-> <<"pressure", "pressure">>]],
      [name |-> "hih",    observed_properties |-> [h |-> <<"humidity", "humidity">>]] }

\* ST_Within(location, ST_GeomFromGeoJSON(geojson)): the points inside each polygon
ST_Within(location, geojson) ==
    CASE geojson = "geoA" -> location \in {"p1"}
      [] OTHER -> FALSE

\* NodeMeta.all(network_name): an exact comparison of the stored network name
NodeMeta_all(network_name) == {n \in NodeMeta : n.sensor_network = network_name}

\* NodeMeta.index(network_name)
NodeMeta_index(network_name) == {n.id : n \in NodeMeta_all(network_name)}

\* every sensor taken to report on every feature of the catalog
EveryFeature(s) == {f.name : f \in FeatureMeta}

\* the features a sensor reports on: the lower-cased prefix before the first '.'
\* of each value of observed_properties
SensorFeatures(s) == {Lower(Head(s.observed_properties[k])) : k \in DOMAIN s.observed_properties}

\* FeatureMeta.index(network_name)
FeatureMeta_index(network_name) ==
    UNION { SensorFeatures(s) :
              s \in {x \in Sensor : \E n \in NodeMeta :
                                       /\ Lower(n.sensor_network) = Lower(network_name)
                                       /\ x.name \in n.sensors} }

\* Sensor.index(network_name): the lower-cased names of the network's sensors
Sensor_index(network_name) ==
    { Lower(x.name) : x \in {y \in Sensor : \E n \in NodeMeta :
                                               /\ Lower(n.sensor_network) = Lower(network_name)
                                               /\ y.name \in n.sensors} }

(***************************************************************************)
(* The warehouse (redshift): one table per feature of interest.  A table is *)
(* the sequence of its rows in storage order; a row stands for n readings   *)
(* that agree on node_id, datetime and sensor.  datetime is a naive         *)
(* timestamp (Column('datetime', DateTime)), an integer instant.            *)
(***************************************************************************)
Row(node, dt, sensor, meta, n) ==
    [node_id |-> node, datetime |-> dt, sensor |-> sensor, meta_id |-> meta, n |-> n]

SmallTables ==
    [ temperature |-> << Row("N1", 1, "TMP112", 1, 1), Row("N1", 2, "BMP180", 2, 1),
                         Row("n9", 2, "bmp180", 3, 1) >>,
      pressure    |-> << Row("N1", 3, "bmp180", 4, 1), Row("N1", 2, "bmp180", 5, 1) >>,
      humidity    |-> << Row("n2", 0, "hih", 6, 1), Row("n2", 2, "hih", 7, 1) >> ]

\* the same warehouse without the humidity table
NoHumidity == [t \in {"temperature", "pressure"} |-> SmallTables[t]]

\* a warehouse large enough for a datadump of several chunks
BigTables ==
    [ temperature |-> << Row("N1", 1, "TMP112", 1, 1001), Row("N1", 2, "BMP180", 2, 8999),
                         Row("n9", 2, "bmp180", 3, 50) >>,
      pressure    |-> << Row("N1", 3, "bmp180", 4, 1), Row("N1", 2, "bmp180", 5, 1000) >>,
      humidity    |-> << Row("n2", 0, "hih", 6, 500), Row("n2", 2, "hih", 7, 501) >> ]

BigNoHumidity == [t \in {"temperature", "pressure"} |-> BigTables[t]]

RECURSIVE Expand(_)
Expand(rows) ==
    IF rows = <<>> THEN <<>>
    ELSE [i \in 1..Head(rows).n |-> Head(rows)] \o Expand(Tail(rows))

(***************************************************************************)
(* ISO-8601 strings: <<wall clock, offset suffix>>.                        *)
(***************************************************************************)
\* datetime.isoformat() of a naive datetime
isoformat(dt) == <<dt, "">>
\* s.split('+')[0]
SplitPlus(s) == IF s[2] = "+00:00" THEN <<s[1], "">> ELSE s
\* dateutil.parser.parse
parse(s) == [wall |-> s[1], tzinfo |-> s[2]]
\* the instant a timestamp literal denotes in a comparison with a naive column
Instant(s) == s[1]

(***************************************************************************)
(* Responses.                                                              *)
(***************************************************************************)
NoResponse == [code |-> 0, status |-> "", message |-> <<>>, query |-> <<>>, objects |-> <<>>]

\* request.args as echoed: every key the request gave, with its raw value
RawArgs(args) == [k \in DOMAIN args |-> Some(args[k])]

\* bad_request(msg) = make_error(msg, 400), which echoes request.args
bad_request(msg, args) ==
    [code |-> 400, status |-> "error", message |-> msg, query |-> RawArgs(args),
     objects |-> <<>>]

\* an exception that leaves the view function: the framework answers 500
InternalServerError ==
    [code |-> 500, status |-> "error", message |-> <<"Internal Server Error">>,
     query |-> <<>>, objects |-> <<>>]

\* make_response(json.dumps(json_response_base(args, objects, query)), 200)
json_response_base(objects, query) ==
    [code |-> 200, status |-> "ok", message |-> <<>>, query |-> query, objects |-> objects]

\* the keys of args.data that hold None
NullArgs(d) == {k \in DOMAIN d : IsNone(d[k])}

\* for null_arg in null_args: args.data.pop(null_arg)
RemoveNull(d) == [k \in (DOMAIN d) \ NullArgs(d) |-> d[k]]

(***************************************************************************)
(* Planner.                                                                *)
(***************************************************************************)
\* Python truth value of an optional collection
Truthy(x) == ~IsNone(x) /\ Val(x) # {}

\* a node query without the filter on the network
NodesOfAnyNetwork(data) ==
    LET node_id == Get(data, "node_id")
        nodes == Get(data, "nodes")
        geojson == Get(data, "geom")
    IN  { n \in NodeMeta :
            /\ (~IsNone(node_id) => Lower(n.id) = Lower(Val(node_id)))
            /\ (Truthy(nodes) => Lower(n.id) \in Val(nodes))
            /\ (~IsNone(geojson) => ST_Within(n.location, Val(geojson))) }

\* node_metadata_query(args).all()
node_metadata_query(data) ==
    LET network_name == Val(Get(data, "network_name"))
        node_id == Get(data, "node_id")
        nodes == Get(data, "nodes")
        geojson == Get(data, "geom")
    IN  { n \in NodeMeta :
            /\ Lower(n.sensor_network) = Lower(network_name)
            /\ (~IsNone(node_id) => Lower(n.id) = Lower(Val(node_id)))
            /\ (Truthy(nodes) => Lower(n.id) \in Val(nodes))
            /\ (~IsNone(geojson) => ST_Within(n.location, Val(geojson))) }

\* a query that gives every table the whole requested limit and offset
observation_query_undivided(data, num_tables, table) ==
    [ table    |-> table,
      start_dt |-> Val(Get(data, "start_datetime")),
      end_dt   |-> Val(Get(data, "end_datetime")),
      nodes    |-> Get(data, "nodes"),
      sensors  |-> Get(data, "sensors"),
      limit    |-> Val(Get(data, "limit")),
      offset   |-> IF Val(data["offset"]) # 0
                   THEN Some(Val(Get(data, "offset")))
                   ELSE None ]

\* observation_query(args, num_tables, table): the query as its clauses
observation_query(data, num_tables, table) ==
    [ table    |-> table,
      start_dt |-> Val(Get(data, "start_datetime")),
      end_dt   |-> Val(Get(data, "end_datetime")),
      nodes    |-> Get(data, "nodes"),
      sensors  |-> Get(data, "sensors"),
      limit    |-> Val(Get(data, "limit")) \div num_tables,
      offset   |-> IF Val(data["offset"]) # 0
                   THEN Some(Val(Get(data, "offset")) \div num_tables)
                   ELSE None ]

\* a WHERE clause that also takes the rows at end_dt
RowMatchesEndInclusive(q, row) ==
    /\ row.datetime >= Instant(q.start_dt)
    /\ row.datetime <= Instant(q.end_dt)
    /\ (Truthy(q.nodes) => Lower(row.node_id) \in Val(q.nodes))
    /\ (Truthy(q.sensors) => Lower(row.sensor) \in Val(q.sensors))

\* the WHERE clause of observation_query on one row
RowMatches(q, row) ==
    /\ row.datetime >= Instant(q.start_dt)
    /\ row.datetime < Instant(q.end_dt)
    /\ (Truthy(q.nodes) => Lower(row.node_id) \in Val(q.nodes))
    /\ (Truthy(q.sensors) => Lower(row.sensor) \in Val(q.sensors))

\* the rows of the query's table that satisfy its WHERE clause, in storage order
Matching(wh, q) ==
    LET Test(row) == RowMatches(q, row)
    IN  SelectSeq(Expand(wh[q.table]), Test)

\* the number of rows of the query's table that satisfy its WHERE clause
RECURSIVE CountRows(_, _)
CountRows(q, rows) ==
    IF rows = <<>> THEN 0
    ELSE (IF RowMatches(q, Head(rows)) THEN Head(rows).n ELSE 0) + CountRows(q, Tail(rows))

\* fast_count(query): the count of the rows the query's WHERE clause selects
fast_count(wh, q) == CountRows(q, wh[q.table])

\* the number of rows LIMIT and OFFSET leave of n matching rows
Kept(q, n) ==
    LET off == IF IsNone(q.offset) THEN 0 ELSE Val(q.offset)
    IN  Min(q.limit, Max(0, n - off))

\* query.all(): no ORDER BY, so LIMIT/OFFSET keep any Kept(q, n) of the matching rows
QueryAll(wh, q) ==
    LET m == Matching(wh, q)
    IN  { [i \in 1..Kept(q, Len(m)) |-> m[p[i]]] : p \in SubIndex(Len(m), Kept(q, Len(m))) }

\* a planner that answers an error when no node or no sensor is resolved
get_observation_queries_strict(wh, reqargs, data) ==
    LET d1 == Put(Put(data, "start_dt", None), "end_dt", None)
        nodes_to_query == {Lower(n.id) : n \in node_metadata_query(d1)}
        d2 == Put(d1, "nodes", Some(nodes_to_query))
        features == Val(d2["features_of_interest"])
        target_sensors == Val(Get(d2, "sensors"))
        sensors == {s \in Sensor : Lower(s.name) \in target_sensors}
        all_features == UNION {SensorFeatures(s) : s \in sensors}
        candidates == features \cap all_features
        missing == {f \in candidates : Lower(f) \notin DOMAIN wh}
        tables == {Lower(f) : f \in candidates}
    IN  IF nodes_to_query = {} \/ sensors = {}
        THEN { [data |-> d2, ok |-> FALSE, queries |-> <<>>,
                response |-> bad_request(<<"Nothing", "to", "query">>, reqargs)] }
        ELSE IF missing # {}
        THEN { [data |-> d2, ok |-> FALSE, queries |-> <<>>,
                response |-> bad_request(<<"Table", Lower(f), "not found">>, reqargs)] :
                  f \in missing }
        ELSE { [data |-> d2, ok |-> TRUE,
                queries |-> [i \in DOMAIN order |->
                                observation_query(d2, Cardinality(tables), order[i])],
                response |-> NoResponse] :
                  order \in Perms(tables) }

\* a planner that leaves out the missing tables and plans the others
get_observation_queries_partial(wh, reqargs, data) ==
    LET d1 == Put(Put(data, "start_dt", None), "end_dt", None)
        nodes_to_query == {Lower(n.id) : n \in node_metadata_query(d1)}
        d2 == Put(d1, "nodes", Some(nodes_to_query))
        features == Val(d2["features_of_interest"])
        target_sensors == Val(Get(d2, "sensors"))
        sensors == {s \in Sensor : Lower(s.name) \in target_sensors}
        all_features == UNION {SensorFeatures(s) : s \in sensors}
        candidates == features \cap all_features
        tables == {Lower(f) : f \in candidates} \cap DOMAIN wh
    IN  { [data |-> d2, ok |-> TRUE,
           queries |-> [i \in DOMAIN order |->
                           observation_query(d2, Cardinality(tables), order[i])],
           response |-> NoResponse] :
             order \in Perms(tables) }

\* get_observation_queries(args): the values it can leave in args.data and return.
\* plan is the list of queries, or the bad_request response naming a missing table;
\* the iteration order of the set of features is not fixed.
get_observation_queries(wh, reqargs, data) ==
    LET d1 == Put(Put(data, "start_dt", None), "end_dt", None)
        nodes_to_query == {Lower(n.id) : n \in node_metadata_query(d1)}
        d2 == Put(d1, "nodes", Some(nodes_to_query))
        features == Val(d2["features_of_interest"])
        target_sensors == Val(Get(d2, "sensors"))
        sensors == {s \in Sensor : Lower(s.name) \in target_sensors}
        all_features == UNION {SensorFeatures(s) : s \in sensors}
        candidates == features \cap all_features
        missing == {f \in candidates : Lower(f) \notin DOMAIN wh}
        tables == {Lower(f) : f \in candidates}
    IN  IF missing # {}
        THEN { [data |-> d2, ok |-> FALSE, queries |-> <<>>,
                response |-> bad_request(<<"Table", Lower(f), "not found">>, reqargs)] :
                  f \in missing }
        ELSE { [data |-> d2, ok |-> TRUE,
                queries |-> [i \in DOMAIN order |->
                                observation_query(d2, Cardinality(tables), order[i])],
                response |-> NoResponse] :
                  order \in Perms(tables) }

(***************************************************************************)
(* Merger / formatter.                                                     *)
(***************************************************************************)
\* format_observation(obs, table)
format_observation(obs, table) ==
    [ node_id |-> obs.node_id,
      meta_id |-> obs.meta_id,
      datetime |-> SplitPlus(isoformat(obs.datetime)),
      sensor |-> obs.sensor,
      feature_of_interest |-> table ]

\* the key of results.sort
SortKey(x) == parse(x.datetime).wall

\* an insertion that does not compare the keys
AppendLast(sorted, x) == Append(sorted, x)

\* list.sort(key=...): stable, ascending
RECURSIVE InsertStable(_, _)
InsertStable(sorted, x) ==
    IF sorted = <<>> THEN <<x>>
    ELSE IF SortKey(sorted[Len(sorted)]) <= SortKey(x) THEN Append(sorted, x)
    ELSE Append(InsertStable(SubSeq(sorted, 1, Len(sorted) - 1), x), sorted[Len(sorted)])

\* the results left in the order the workers appended them
NoSort(results) == results

RECURSIVE SortByDatetime(_)
SortByDatetime(results) ==
    IF results = <<>> THEN <<>>
    ELSE InsertStable(SortByDatetime(SubSeq(results, 1, Len(results) - 1)), results[Len(results)])

(***************************************************************************)
(* Requests and the validator.                                             *)
(***************************************************************************)
Run == {1, 2}

\* the dict holding the optional entries that are given
MkArgs(opts) == [k \in {x \in DOMAIN opts : ~IsNone(opts[x])} |-> Val(opts[k])]

LowerSet(S) == {Lower(x) : x \in S}

\* the comma-separated list arguments, split and lower-cased by the endpoint
LowerLists(args) ==
    [k \in DOMAIN args |->
        IF k \in {"nodes", "features_of_interest", "sensors"} THEN LowerSet(args[k]) ELSE args[k]]

NoRequest == [endpoint |-> "none", network_name |-> "", args |-> <<>>]

ObservationRequests ==
    { [endpoint |-> "observations", network_name |-> nn,
       args |-> MkArgs([nodes |-> no, location_geom__within |-> g,
                        features_of_interest |-> f, sensors |-> se,
                        start_datetime |-> Some(<<st, "+00:00">>), end_datetime |-> Some(en),
                        limit |-> Some(li), offset |-> Some(of)])] :
        nn \in {"net", "NET"},
        no \in {None, Some({"N1", "zz"})},
        g \in {None, Some("geoA")},
        f \in {None, Some({"Temperature", "pressure"}), Some({"humidity"})},
        se \in {None, Some({"BMP180", "hih"})},
        st \in 0..MaxStart,
        en \in {<<3, "">>, <<4, "+00:00">>},
        li \in 0..MaxLimit,
        of \in 0..MaxOffset }

\* validate(Validator(only=fields), args).data: every field of the endpoint, the
\* list filters defaulted to the network's features and sensors, an absent nodes
\* filter left None or defaulted to the network's node ids (nd)
validate(nd, fields, network_name, args) ==
    LET given(k) == IF k \in DOMAIN args THEN Some(args[k]) ELSE None
        all == [ network_name |-> Some(network_name),
                 node_id |-> given("node_id"),
                 nodes |-> IF "nodes" \in DOMAIN args THEN Some(args["nodes"])
                           ELSE IF nd = "index"
                                THEN Some({Lower(n.id) : n \in {m \in NodeMeta :
                                              Lower(m.sensor_network) = Lower(network_name)}})
                                ELSE None,
                 geom |-> given("location_geom__within"),
                 features_of_interest |->
                     IF "features_of_interest" \in DOMAIN args
                     THEN Some(args["features_of_interest"])
                     ELSE Some(FeatureMeta_index(network_name)),
                 sensors |-> IF "sensors" \in DOMAIN args THEN Some(args["sensors"])
                             ELSE Some(Sensor_index(network_name)),
                 feature |-> given("feature"),
                 sensor |-> given("sensor"),
                 start_datetime |-> given("start_datetime"),
                 end_datetime |-> given("end_datetime"),
                 limit |-> given("limit"),
                 offset |-> given("offset") ]
    IN  [k \in fields |-> all[k]]

\* validate(...).errors: the fields the validator rejects, here an unknown
\* network, a malformed datetime and a malformed GeoJSON string
errors(req) ==
    LET Malformed(k) ==
            CASE k = "network_name" ->
                    Lower(req.network_name) \notin {Lower(n.name) : n \in NetworkMeta}
              [] k \in {"start_datetime", "end_datetime"} ->
                    k \in DOMAIN req.args /\ req.args[k][2] \notin {"", "+00:00"}
              [] OTHER ->
                    k \in DOMAIN req.args /\ req.args[k] # "geoA"
    IN  SelectSeq(<<"network_name", "start_datetime", "end_datetime", "location_geom__within">>,
                  Malformed)

ObservationFields ==
    {"network_name", "nodes", "start_datetime", "end_datetime", "geom",
     "features_of_interest", "sensors", "limit", "offset"}

NetworkRequests ==
    { [endpoint |-> "network", network_name |-> nn, args |-> <<>>] : nn \in {"net", "NET"} }

NodeRequests ==
    { [endpoint |-> "nodes", network_name |-> nn,
       args |-> MkArgs([node_id |-> ni, location_geom__within |-> g])] :
        nn \in {"net", "NET"}, ni \in {None, Some("N1"), Some("zz")}, g \in {None, Some("geoA")} }

FeatureRequests ==
    { [endpoint |-> "features", network_name |-> nn, args |-> MkArgs([feature |-> f])] :
        nn \in {"net", "NET"}, f \in {None, Some("Temperature"), Some("humidity")} }

SensorRequests ==
    { [endpoint |-> "sensors", network_name |-> nn,
       args |-> MkArgs([feature |-> f, sensor |-> se])] :
        nn \in {"net", "NET"}, f \in {None, Some("temperature")}, se \in {None, Some("TMP112")} }

MetadataRequests == NetworkRequests \cup NodeRequests \cup FeatureRequests \cup SensorRequests

\* the path arguments, lower-cased by the metadata endpoints
LowerPath(args) ==
    [k \in DOMAIN args |->
        IF k \in {"node_id", "feature", "sensor"} THEN Lower(args[k]) ELSE args[k]]

DatadumpFields == ObservationFields

\* the limits of the datadump requests
DatadumpLimits == {0, 1, 1000, 1001, 2002, 2500}

DatadumpRequests ==
    { [endpoint |-> "datadump", network_name |-> "net",
       args |-> MkArgs([nodes |-> None, location_geom__within |-> None,
                        features_of_interest |-> f, sensors |-> se,
                        start_datetime |-> Some(<<st, "+00:00">>), end_datetime |-> Some(en),
                        limit |-> Some(li), offset |-> Some(0)])] :
        f \in {None, Some({"Temperature"}), Some({"humidity", "pressure"})},
        se \in {None, Some({"BMP180", "hih"})},
        st \in 0..MaxStart,
        en \in {<<3, "">>, <<4, "+00:00">>},
        li \in DatadumpLimits }

\* requests the validator rejects, one or more for each endpoint
InvalidRequests ==
    { [endpoint |-> "observations", network_name |-> "net",
       args |-> MkArgs([features_of_interest |-> Some({"Temperature"}),
                        start_datetime |-> Some(<<0, st>>), end_datetime |-> Some(<<3, "junk">>),
                        limit |-> Some(MaxLimit), offset |-> Some(0)])] : st \in {"+00:00", "junk"} }
    \cup
    { [endpoint |-> "datadump", network_name |-> nn,
       args |-> MkArgs([location_geom__within |-> Some("notgeo"),
                        start_datetime |-> Some(<<0, "+00:00">>), end_datetime |-> Some(<<3, "">>),
                        limit |-> Some(MaxLimit), offset |-> Some(0)])] : nn \in {"net", "nope"} }
    \cup
    { [endpoint |-> "nodes", network_name |-> "net",
       args |-> MkArgs([node_id |-> Some("N1"), location_geom__within |-> Some("notgeo")])] }
    \cup
    { [endpoint |-> e, network_name |-> "nope", args |-> <<>>] :
        e \in {"network", "nodes", "features", "sensors"} }

(***************************************************************************)
(* State.                                                                  *)
(***************************************************************************)
VARIABLES
    warehouse,      \* the tables of the warehouse
    nodes_default,  \* what the validator leaves for an absent nodes filter
    request,        \* request[r]: the endpoint, the path's network and request.args
    data,           \* data[r]: args.data of the request
    pc,             \* pc[r]: where the handler or job of request r stands
    planned,        \* planned[r]: the bad_request response get_observation_queries returned
    plan,           \* plan[r]: the (query, table) pairs of get_observation_queries
    threads,        \* threads[r][i]: the worker of plan[r][i]
    results,        \* results[r]: the list the workers append to
    response,       \* response[r]: what the endpoint returned
    datadump,       \* the rows of the DataDump table, in commit order
    status,         \* status[t]: the job status of ticket t
    flags,          \* flags[t]: the flag "<t>_suppresscleanup"
    job             \* job[r]: the locals of get_observation_datadump

env == <<warehouse, nodes_default, request>>
fanout == <<plan, threads, results>>
store == <<datadump, status, flags>>
vars == <<env, data, pc, planned, fanout, response, store, job>>

Tickets == {"t1", "t2"}
Ticket(r) == IF r = 1 THEN "t1" ELSE "t2"

NewThread == [state |-> "started", rows |-> <<>>, fetched |-> <<>>]

NoJob ==
    [row_count |-> 0, chunk_count |-> 0, chunk_number |-> 0, lo |-> 1, hi |-> 0,
     qi |-> 0, taken |-> 0, final |-> FALSE, features |-> {}]

\* the state before the request of run 1 is handled; run 2 is idle
InitWith(requests, warehouses) ==
    /\ warehouse \in warehouses
    /\ nodes_default \in {"none", "index"}
    /\ \E req \in requests :
          request = [r \in Run |-> IF r = 1 THEN req ELSE NoRequest]
    /\ data = [r \in Run |-> <<>>]
    /\ pc = [r \in Run |-> IF r = 1 THEN "received" ELSE "idle"]
    /\ planned = [r \in Run |-> NoResponse]
    /\ plan = [r \in Run |-> <<>>]
    /\ threads = [r \in Run |-> <<>>]
    /\ results = [r \in Run |-> <<>>]
    /\ response = [r \in Run |-> NoResponse]
    /\ datadump = <<>>
    /\ status = [t \in Tickets |-> None]
    /\ flags = [t \in Tickets |-> None]
    /\ job = [r \in Run |-> NoJob]

Init ==
    \/ InitWith(ObservationRequests, {SmallTables, NoHumidity})
    \/ InitWith(DatadumpRequests, {BigTables, BigNoHumidity})
    \/ InitWith(MetadataRequests, {SmallTables})
    \/ InitWith(InvalidRequests, {SmallTables})

(***************************************************************************)
(* Every endpoint: the validator's errors.                                 *)
(***************************************************************************)
\* an endpoint that goes on although the validator reported errors
ignore_errors(r) ==
    /\ pc[r] = "received"
    /\ errors(request[r]) # <<>>
    /\ response' = [response EXCEPT ![r] = json_response_base(<<>>, RawArgs(request[r].args))]
    /\ pc' = [pc EXCEPT ![r] = "done"]
    /\ UNCHANGED <<env, data, planned, fanout, store, job>>

\* if validated_args.errors: return bad_request(validated_args.errors)
return_bad_request(r) ==
    /\ pc[r] = "received"
    /\ errors(request[r]) # <<>>
    /\ response' = [response EXCEPT ![r] = bad_request(errors(request[r]), request[r].args)]
    /\ pc' = [pc EXCEPT ![r] = "done"]
    /\ UNCHANGED <<env, data, planned, fanout, store, job>>

(***************************************************************************)
(* The observation endpoint.                                               *)
(***************************************************************************)
\* get_observations up to the start of the workers in run_observation_queries.
\* When the planner returned its bad_request response instead of a list,
\* "for query, table in queries" raises and the request ends in a 500.
get_observations(r) ==
    /\ pc[r] = "received"
    /\ request[r].endpoint = "observations"
    /\ errors(request[r]) = <<>>
    /\ LET args == LowerLists(request[r].args)
           validated == validate(nodes_default, ObservationFields, request[r].network_name, args)
       IN  \E out \in get_observation_queries(warehouse, request[r].args, validated) :
              /\ data' = [data EXCEPT ![r] = out.data]
              /\ planned' = [planned EXCEPT ![r] = out.response]
              /\ IF out.ok
                 THEN /\ plan' = [plan EXCEPT ![r] = out.queries]
                      /\ threads' = [threads EXCEPT ![r] = [i \in DOMAIN out.queries |-> NewThread]]
                      /\ pc' = [pc EXCEPT ![r] = "joining"]
                      /\ UNCHANGED response
                 ELSE /\ response' = [response EXCEPT ![r] = InternalServerError]
                      /\ pc' = [pc EXCEPT ![r] = "done"]
                      /\ UNCHANGED <<plan, threads>>
    /\ UNCHANGED <<env, results, store, job>>

\* fetch_query_results: obs_query.all() returns the rows
fetch_query_results_all(r, i) ==
    /\ pc[r] = "joining"
    /\ i \in DOMAIN threads[r]
    /\ threads[r][i].state = "started"
    /\ \E rows \in QueryAll(warehouse, plan[r][i]) :
          threads' = [threads EXCEPT ![r][i] =
                        [state |-> IF rows = <<>> THEN "finished" ELSE "iterating",
                         rows |-> rows, fetched |-> rows]]
    /\ UNCHANGED <<env, data, pc, planned, plan, results, response, store, job>>

\* fetch_query_results: obs_query.all() raises; the thread dies with its exception
fetch_query_results_raise(r, i) ==
    /\ pc[r] = "joining"
    /\ i \in DOMAIN threads[r]
    /\ threads[r][i].state = "started"
    /\ threads' = [threads EXCEPT ![r][i].state = "raised"]
    /\ UNCHANGED <<env, data, pc, planned, plan, results, response, store, job>>

\* what list.append leaves in the shared list
AppendResult(list, x) == Append(list, x)

\* fetch_query_results: data.append(format_observation(obs, obs_table)) for the next row
fetch_query_results_append(r, i) ==
    /\ pc[r] = "joining"
    /\ i \in DOMAIN threads[r]
    /\ threads[r][i].state = "iterating"
    /\ LET rest == Tail(threads[r][i].rows)
       IN  /\ results' = [results EXCEPT ![r] =
                AppendResult(@, format_observation(Head(threads[r][i].rows), plan[r][i].table))]
           /\ threads' = [threads EXCEPT ![r][i].rows = rest,
                                         ![r][i].state = IF rest = <<>> THEN "finished" ELSE "iterating"]
    /\ UNCHANGED <<env, data, pc, planned, plan, response, store, job>>

\* the response built without waiting for the workers
NoJoin(r) == TRUE

\* a join that gives up on a worker whose query does not return
JoinedOrGivenUp(r) ==
    \A i \in DOMAIN threads[r] : threads[r][i].state \in {"finished", "raised", "hung"}

\* thread.join() returns for every thread: each has ended, normally or by an exception
Joined(r) == \A i \in DOMAIN threads[r] : threads[r][i].state \in {"finished", "raised"}

\* the keys run_observation_queries pops because the request did not give them
PoppedKeys(args) == {"nodes", "features_of_interest", "sensors"} \ DOMAIN args

\* args.data as run_observation_queries echoes it
EchoData(args, d) ==
    LET d1 == [k \in (DOMAIN d) \ PoppedKeys(args) |-> d[k]]
        d2 == [k \in (DOMAIN d1) \ {"geom"} |-> d1[k]]
        d3 == [k \in DOMAIN d2 |->
                 IF k \in {"start_datetime", "end_datetime"} /\ k \in DOMAIN args
                 THEN Some(SplitPlus(Val(d2[k])))
                 ELSE d2[k]]
    IN  RemoveNull(d3)

\* display_args: request.args updated with args.data
DisplayArgs(args, d) == Update(RawArgs(args), d)

\* run_observation_queries after the joins: the echoed query, the sort, the response
run_observation_queries(r) ==
    /\ pc[r] = "joining"
    /\ Joined(r)
    /\ LET args == request[r].args
           echoed == EchoData(args, data[r])
       IN  IF PoppedKeys(args) \subseteq DOMAIN data[r]
           THEN /\ data' = [data EXCEPT ![r] = echoed]
                /\ results' = [results EXCEPT ![r] = SortByDatetime(@)]
                /\ response' = [response EXCEPT ![r] =
                      json_response_base(SortByDatetime(results[r]), DisplayArgs(args, echoed))]
           ELSE \* args.data.pop(key) raises KeyError
                /\ response' = [response EXCEPT ![r] = InternalServerError]
                /\ UNCHANGED <<data, results>>
    /\ pc' = [pc EXCEPT ![r] = "done"]
    /\ UNCHANGED <<env, planned, plan, threads, store, job>>

(***************************************************************************)
(* The metadata endpoints.                                                 *)
(***************************************************************************)
\* the response of a metadata endpoint: the objects in the order the query gave
\* them and args.data as the echoed query
MetadataResponse(r, objects, query) ==
    /\ \E p \in Perms(objects) :
          response' = [response EXCEPT ![r] = json_response_base(p, query)]
    /\ data' = [data EXCEPT ![r] = query]
    /\ pc' = [pc EXCEPT ![r] = "done"]

\* format_network_metadata(network)
format_network_metadata(network) ==
    [ name |-> network.name,
      features_of_interest |-> FeatureMeta_index(network.name),
      nodes |-> NodeMeta_index(network.name),
      sensors |-> Sensor_index(network.name) ]

\* get_network_metadata and _get_network_metadata
get_network_metadata(r) ==
    /\ pc[r] = "received"
    /\ request[r].endpoint = "network"
    /\ errors(request[r]) = <<>>
    /\ LET d == validate(nodes_default, {"network_name"}, Lower(request[r].network_name), <<>>)
           network_name == Val(Get(d, "network_name"))
           networks == {n \in NetworkMeta : Lower(n.name) = Lower(network_name)}
       IN  MetadataResponse(r, {format_network_metadata(n) : n \in networks}, RemoveNull(d))
    /\ UNCHANGED <<env, planned, fanout, store, job>>

\* format_node_metadata(node)
format_node_metadata(node) ==
    [ id |-> node.id, network_name |-> node.sensor_network, sensors |-> node.sensors,
      coordinates |-> node.location ]

\* get_node_metadata and _get_node_metadata.  args.data.pop('nodes') raises KeyError
\* when the key went with the null arguments.
get_node_metadata(r) ==
    /\ pc[r] = "received"
    /\ request[r].endpoint = "nodes"
    /\ errors(request[r]) = <<>>
    /\ LET args == request[r].args
           d == validate(nodes_default, {"network_name", "node_id", "nodes", "geom"},
                         Lower(request[r].network_name), LowerPath(args))
           nodes == node_metadata_query(d)
           d1 == RemoveNull(d)
       IN  IF "nodes" \notin DOMAIN args /\ "nodes" \notin DOMAIN d1
           THEN /\ response' = [response EXCEPT ![r] = InternalServerError]
                /\ data' = [data EXCEPT ![r] = d1]
                /\ pc' = [pc EXCEPT ![r] = "done"]
           ELSE MetadataResponse(r, {format_node_metadata(n) : n \in nodes},
                                 IF "nodes" \notin DOMAIN args THEN Pop(d1, "nodes") ELSE d1)
    /\ UNCHANGED <<env, planned, fanout, store, job>>

\* format_feature(feature)
format_feature(feature) ==
    [name |-> feature.name, observed_properties |-> feature.observed_properties]

\* get_features and _get_features
get_features(r) ==
    /\ pc[r] = "received"
    /\ request[r].endpoint = "features"
    /\ errors(request[r]) = <<>>
    /\ LET d == validate(nodes_default, {"network_name", "feature"},
                         Lower(request[r].network_name), LowerPath(request[r].args))
           target_feature == Get(d, "feature")
           features_index == FeatureMeta_index(Val(Get(d, "network_name")))
           features == {f \in FeatureMeta :
                          /\ Lower(f.name) \in features_index
                          /\ (IsNone(target_feature) \/ Lower(f.name) = Lower(Val(target_feature)))}
       IN  MetadataResponse(r, {format_feature(f) : f \in features}, RemoveNull(d))
    /\ UNCHANGED <<env, planned, fanout, store, job>>

\* format_sensor(sensor)
format_sensor(sensor) ==
    [ name |-> sensor.name,
      observed_properties |-> {sensor.observed_properties[k] : k \in DOMAIN sensor.observed_properties} ]

\* get_sensors and _get_sensors
get_sensors(r) ==
    /\ pc[r] = "received"
    /\ request[r].endpoint = "sensors"
    /\ errors(request[r]) = <<>>
    /\ LET d == validate(nodes_default, {"network_name", "feature", "sensor", "node_id"},
                         Lower(request[r].network_name), LowerPath(request[r].args))
           feature == Get(d, "feature")
           sensor_name == Get(d, "sensor")
           valid_sensors == {s \in Sensor_index(Val(Get(d, "network_name"))) :
                               IsNone(sensor_name) \/ s = Lower(Val(sensor_name))}
           valid_properties(sensor) ==
               {Head(sensor.observed_properties[k]) : k \in DOMAIN sensor.observed_properties}
           sensors == {s \in Sensor :
                         /\ Lower(s.name) \in valid_sensors
                         /\ (IsNone(feature) \/ Val(feature) \in valid_properties(s))}
       IN  MetadataResponse(r, {format_sensor(s) : s \in sensors}, RemoveNull(d))
    /\ UNCHANGED <<env, planned, fanout, store, job>>

(***************************************************************************)
(* The datadump job.                                                       *)
(***************************************************************************)
chunk_size == 1000
suppresscleanup_ttl == 10800

\* math.ceil(a / b) for b > 0
Ceil(a, b) == (a + b - 1) \div b

\* the number of rows windowed_query(query, ...) yields: the rows of the query
windowed_query(wh, q) == Kept(q, fast_count(wh, q))

\* make_job_response: the job is queued under its ticket and the ticket returned
job_response(ticket) ==
    [code |-> 200, status |-> "ok", message |-> <<"ticket", ticket>>,
     query |-> <<>>, objects |-> <<>>]

QueuedStatus == Some([status |-> "queued", meta |-> [startTime |-> "now"], progress |-> None])

\* set_sensor_datadump: validate and queue the job
set_sensor_datadump(r) ==
    /\ pc[r] = "received"
    /\ request[r].endpoint = "datadump"
    /\ errors(request[r]) = <<>>
    /\ LET args == LowerLists(request[r].args)
           validated == validate(nodes_default, DatadumpFields, request[r].network_name, args)
       IN  data' = [data EXCEPT ![r] =
                Put(Put(Put(validated, "query_fn", Some("aot_point")),
                        "datadump_urlroot", Some("urlroot")),
                    "jobsframework_ticket", Some(Ticket(r)))]
    /\ status' = [status EXCEPT ![Ticket(r)] = QueuedStatus]
    /\ response' = [response EXCEPT ![r] = job_response(Ticket(r))]
    /\ pc' = [pc EXCEPT ![r] = "queued"]
    /\ UNCHANGED <<env, planned, fanout, datadump, flags, job>>

\* row_count and chunk_count of get_observation_datadump
RowCount(wh, queries, limit) ==
    LET counted == SumSeq([i \in DOMAIN queries |-> fast_count(wh, queries[i])])
    IN  IF ~IsNone(limit) /\ Val(limit) # 0 THEN Val(limit) ELSE counted

\* a chunk count rounded down
ChunkCountFloor(row_count) == row_count \div chunk_size

ChunkCount(row_count) == Ceil(row_count, chunk_size)

\* get_observation_datadump up to its loop over the queries.  When the planner
\* returned its bad_request response, "for query, table in observation_queries"
\* raises and the job ends with the exception.
get_observation_datadump(r) ==
    /\ pc[r] = "queued"
    /\ \E out \in get_observation_queries(warehouse, request[r].args, data[r]) :
          /\ data' = [data EXCEPT ![r] = out.data]
          /\ planned' = [planned EXCEPT ![r] = out.response]
          /\ IF out.ok
             THEN LET row_count == RowCount(warehouse, out.queries, Get(out.data, "limit"))
                  IN  /\ plan' = [plan EXCEPT ![r] = out.queries]
                      /\ job' = [job EXCEPT ![r] =
                            [NoJob EXCEPT !.row_count = row_count,
                                          !.chunk_count = ChunkCount(row_count),
                                          !.chunk_number = 1,
                                          !.qi = 1]]
                      /\ pc' = [pc EXCEPT ![r] = "draining"]
             ELSE /\ pc' = [pc EXCEPT ![r] = "job_raised"]
                  /\ UNCHANGED <<plan, job>>
    /\ UNCHANGED <<env, threads, results, response, store>>

\* a chunk taken as full when it holds chunk_size rows
ChunkFullAtSize(len) == len >= chunk_size

\* len(chunk) > chunk_size
ChunkFull(len) == len > chunk_size

\* a loop that starts every table with an empty chunk
datadump_drain_per_table(r) ==
    /\ pc[r] = "draining"
    /\ LET j == job[r]
           len == j.hi - j.lo + 1
       IN  IF j.qi > Len(plan[r])
           THEN IF len > 0
                THEN /\ job' = [job EXCEPT ![r].final = TRUE]
                     /\ pc' = [pc EXCEPT ![r] = "storing"]
                ELSE /\ pc' = [pc EXCEPT ![r] = "completing"]
                     /\ UNCHANGED job
           ELSE LET q == plan[r][j.qi]
                    left == windowed_query(warehouse, q) - j.taken
                    fills == CHOOSE n \in {chunk_size - len, chunk_size + 1 - len} :
                                ChunkFull(len + n) /\ ~ChunkFull(len + n - 1)
                IN  IF left >= fills /\ fills > 0
                    THEN /\ job' = [job EXCEPT ![r].hi = j.hi + fills,
                                               ![r].taken = j.taken + fills,
                                               ![r].features = @ \cup {q.table}]
                         /\ pc' = [pc EXCEPT ![r] = "storing"]
                    ELSE /\ job' = [job EXCEPT ![r].hi = j.hi + left,
                                               ![r].lo = j.hi + left + 1,
                                               ![r].taken = 0,
                                               ![r].qi = j.qi + 1,
                                               ![r].features = @ \cup {q.table}]
                         /\ UNCHANGED pc
    /\ UNCHANGED <<env, data, planned, fanout, response, store>>

\* the loop over the queries and their rows, up to the next call of store_chunk:
\* rows of the current query are appended until the chunk is full or the query is
\* drained; after the last query a non-empty chunk is stored as the final one
datadump_drain(r) ==
    /\ pc[r] = "draining"
    /\ LET j == job[r]
           len == j.hi - j.lo + 1
       IN  IF j.qi > Len(plan[r])
           THEN IF len > 0
                THEN /\ job' = [job EXCEPT ![r].final = TRUE]
                     /\ pc' = [pc EXCEPT ![r] = "storing"]
                ELSE /\ pc' = [pc EXCEPT ![r] = "completing"]
                     /\ UNCHANGED job
           ELSE LET q == plan[r][j.qi]
                    left == windowed_query(warehouse, q) - j.taken
                    \* the number of appends after which the chunk is full
                    fills == CHOOSE n \in {chunk_size - len, chunk_size + 1 - len} :
                                ChunkFull(len + n) /\ ~ChunkFull(len + n - 1)
                IN  IF left >= fills /\ fills > 0
                    THEN /\ job' = [job EXCEPT ![r].hi = j.hi + fills,
                                               ![r].taken = j.taken + fills,
                                               ![r].features = @ \cup {q.table}]
                         /\ pc' = [pc EXCEPT ![r] = "storing"]
                    ELSE /\ job' = [job EXCEPT ![r].hi = j.hi + left,
                                               ![r].taken = 0,
                                               ![r].qi = j.qi + 1,
                                               ![r].features = @ \cup {q.table}]
                         /\ UNCHANGED pc
    /\ UNCHANGED <<env, data, planned, fanout, response, store>>

\* a DataDump row whose total is counted again from the rows drained so far
DataDumpPartRecount(n, ticket, j) ==
    [id |-> <<"urandom", n>>, request |-> ticket, part |-> j.chunk_number,
     total |-> Ceil(j.hi, chunk_size), data |-> [rows |-> <<j.lo, j.hi>>, meta |-> <<>>]]

\* the DataDump row of store_chunk
DataDumpPart(n, ticket, j) ==
    [id |-> <<"urandom", n>>, request |-> ticket, part |-> j.chunk_number,
     total |-> j.chunk_count, data |-> [rows |-> <<j.lo, j.hi>>, meta |-> <<>>]]

\* a commit that returns without the row being stored
store_chunk_commit_lost(r) ==
    /\ pc[r] = "storing"
    /\ pc' = [pc EXCEPT ![r] = "committed"]
    /\ UNCHANGED <<env, data, planned, fanout, response, store, job>>

\* a commit that writes the chunk over the row stored last
store_chunk_commit_overwrite(r) ==
    /\ pc[r] = "storing"
    /\ datadump' = IF datadump = <<>>
                   THEN <<DataDumpPart(1, Ticket(r), job[r])>>
                   ELSE [datadump EXCEPT ![Len(datadump)] =
                            DataDumpPart(Len(datadump), Ticket(r), job[r])]
    /\ pc' = [pc EXCEPT ![r] = "committed"]
    /\ UNCHANGED <<env, data, planned, fanout, response, status, flags, job>>

\* store_chunk: session.add(datadump_part); session.commit()
store_chunk_commit(r) ==
    /\ pc[r] = "storing"
    /\ datadump' = Append(datadump, DataDumpPart(Len(datadump) + 1, Ticket(r), job[r]))
    /\ pc' = [pc EXCEPT ![r] = "committed"]
    /\ UNCHANGED <<env, data, planned, fanout, response, status, flags, job>>

\* a failed commit whose row stays in the table
store_chunk_no_rollback(r) ==
    /\ pc[r] = "storing"
    /\ datadump' = Append(datadump, DataDumpPart(Len(datadump) + 1, Ticket(r), job[r]))
    /\ pc' = [pc EXCEPT ![r] = "job_raised"]
    /\ UNCHANGED <<env, data, planned, fanout, response, status, flags, job>>

\* a failed commit that is swallowed: the job goes on with the next chunk
store_chunk_swallow(r) ==
    /\ pc[r] = "storing"
    /\ LET j == job[r]
       IN  IF j.final
           THEN /\ pc' = [pc EXCEPT ![r] = "completing"]
                /\ UNCHANGED job
           ELSE /\ job' = [job EXCEPT ![r].lo = j.hi + 1,
                                      ![r].chunk_number = j.chunk_number + 1]
                /\ pc' = [pc EXCEPT ![r] = "draining"]
    /\ UNCHANGED <<env, data, planned, fanout, response, store>>

\* store_chunk: session.commit() raises; session.rollback(); raise e
store_chunk_rollback(r) ==
    /\ pc[r] = "storing"
    /\ pc' = [pc EXCEPT ![r] = "job_raised"]
    /\ UNCHANGED <<env, data, planned, fanout, response, store, job>>

\* a store_chunk that returns after the commit, without the status and flag writes
store_chunk_no_status(r) ==
    /\ pc[r] = "committed"
    /\ LET j == job[r]
       IN  IF j.final
           THEN /\ pc' = [pc EXCEPT ![r] = "completing"]
                /\ UNCHANGED job
           ELSE /\ job' = [job EXCEPT ![r].lo = j.hi + 1,
                                      ![r].chunk_number = j.chunk_number + 1]
                /\ pc' = [pc EXCEPT ![r] = "draining"]
    /\ UNCHANGED <<env, data, planned, fanout, response, store>>

\* a store_chunk that sets one suppress-cleanup flag for all tickets
store_chunk_status_one_flag(r) ==
    /\ pc[r] = "committed"
    /\ LET j == job[r]
           t == Ticket(r)
       IN  /\ status' = [status EXCEPT ![t] =
                 Some([Val(status[t]) EXCEPT !.progress =
                          Some([done |-> j.chunk_number, total |-> j.chunk_count])])]
           /\ flags' = [x \in Tickets |-> Some([value |-> TRUE, ttl |-> suppresscleanup_ttl])]
           /\ IF j.final
              THEN /\ pc' = [pc EXCEPT ![r] = "completing"]
                   /\ UNCHANGED job
              ELSE /\ job' = [job EXCEPT ![r].lo = j.hi + 1,
                                         ![r].chunk_number = j.chunk_number + 1]
                   /\ pc' = [pc EXCEPT ![r] = "draining"]
    /\ UNCHANGED <<env, data, planned, fanout, response, datadump>>

\* store_chunk: the status and flag writes, then the caller's reset of the chunk
store_chunk_status(r) ==
    /\ pc[r] = "committed"
    /\ LET j == job[r]
           t == Ticket(r)
       IN  /\ status' = [status EXCEPT ![t] =
                 Some([Val(status[t]) EXCEPT !.progress =
                          Some([done |-> j.chunk_number, total |-> j.chunk_count])])]
           /\ flags' = [flags EXCEPT ![t] = Some([value |-> TRUE, ttl |-> suppresscleanup_ttl])]
           /\ IF j.final
              THEN /\ pc' = [pc EXCEPT ![r] = "completing"]
                   /\ UNCHANGED job
              ELSE /\ job' = [job EXCEPT ![r].lo = j.hi + 1,
                                         ![r].chunk_number = j.chunk_number + 1]
                   /\ pc' = [pc EXCEPT ![r] = "draining"]
    /\ UNCHANGED <<env, data, planned, fanout, response, datadump>>

\* the completion record: DataDump(request_id, request_id, 0, chunk_count, meta_chunk)
DataDumpMeta(ticket, j, startTime) ==
    [id |-> <<ticket>>, request |-> ticket, part |-> 0, total |-> j.chunk_count,
     data |-> [rows |-> <<>>, meta |-> <<startTime, j.features>>]]

\* get_observation_datadump: the completion record is committed and the url returned
get_observation_datadump_complete(r) ==
    /\ pc[r] = "completing"
    /\ datadump' = Append(datadump,
                      DataDumpMeta(Ticket(r), job[r], Val(status[Ticket(r)]).meta.startTime))
    /\ pc' = [pc EXCEPT ![r] = "job_done"]
    /\ UNCHANGED <<env, data, planned, fanout, response, status, flags, job>>

\* get_observation_datadump: the commit of the completion record raises
get_observation_datadump_rollback(r) ==
    /\ pc[r] = "completing"
    /\ pc' = [pc EXCEPT ![r] = "job_raised"]
    /\ UNCHANGED <<env, data, planned, fanout, response, store, job>>

Next ==
    \E r \in Run :
        \/ return_bad_request(r)
        \/ get_observations(r)
        \/ \E i \in 1..3 : fetch_query_results_all(r, i)
        \/ \E i \in 1..3 : fetch_query_results_raise(r, i)
        \/ \E i \in 1..3 : fetch_query_results_append(r, i)
        \/ run_observation_queries(r)
        \/ get_network_metadata(r)
        \/ get_node_metadata(r)
        \/ get_features(r)
        \/ get_sensors(r)
        \/ set_sensor_datadump(r)
        \/ get_observation_datadump(r)
        \/ datadump_drain(r)
        \/ store_chunk_commit(r)
        \/ store_chunk_rollback(r)
        \/ store_chunk_status(r)
        \/ get_observation_datadump_complete(r)
        \/ get_observation_datadump_rollback(r)

Spec == Init /\ [][Next]_vars

(***************************************************************************)
(* Two executions of the same observation request on the same warehouse,   *)
(* to compare the responses of different interleavings of the workers.     *)
(***************************************************************************)
\* observation requests over the whole network that choose the features and
\* a limit that leaves each table one row or more
FanRequests ==
    { [endpoint |-> "observations", network_name |-> "net",
       args |-> MkArgs([features_of_interest |-> f,
                        start_datetime |-> Some(<<0, "+00:00">>), end_datetime |-> Some(<<3, "">>),
                        limit |-> Some(li), offset |-> Some(0)])] :
        f \in {None, Some({"Temperature", "pressure"})},
        li \in {MaxLimit, 2 * MaxLimit} }

InitFan ==
    /\ warehouse = SmallTables
    /\ nodes_default = "index"
    /\ \E req \in FanRequests : request = [r \in Run |-> req]
    /\ data = [r \in Run |-> <<>>]
    /\ pc = [r \in Run |-> "received"]
    /\ planned = [r \in Run |-> NoResponse]
    /\ plan = [r \in Run |-> <<>>]
    /\ threads = [r \in Run |-> <<>>]
    /\ results = [r \in Run |-> <<>>]
    /\ response = [r \in Run |-> NoResponse]
    /\ datadump = <<>>
    /\ status = [t \in Tickets |-> None]
    /\ flags = [t \in Tickets |-> None]
    /\ job = [r \in Run |-> NoJob]

\* the second execution starts when the first has answered
Turn(r) == r = 2 => pc[1] = "done"

NextFan ==
    \E r \in Run :
        \/ Turn(r) /\ get_observations(r)
        \/ Turn(r) /\ \E i \in 1..3 : fetch_query_results_all(r, i)
        \/ Turn(r) /\ \E i \in 1..3 : fetch_query_results_raise(r, i)
        \/ Turn(r) /\ \E i \in 1..3 : fetch_query_results_append(r, i)
        \/ Turn(r) /\ run_observation_queries(r)

SpecFan == InitFan /\ [][NextFan]_vars

(***************************************************************************)
(* The datadump job re-invoked with its ticket after it raised.            *)
(***************************************************************************)
MaxDumpRows == 4     \* a job is re-invoked while the DataDump table holds fewer rows

\* the job runner calls get_observation_datadump(args) again for the ticket:
\* the function starts over with fresh locals
reinvoke(r) ==
    /\ pc[r] = "job_raised"
    /\ request[r].endpoint = "datadump"
    /\ Len(datadump) < MaxDumpRows
    /\ pc' = [pc EXCEPT ![r] = "queued"]
    /\ job' = [job EXCEPT ![r] = NoJob]
    /\ plan' = [plan EXCEPT ![r] = <<>>]
    /\ UNCHANGED <<env, data, planned, threads, results, response, store>>

\* datadump requests of two chunks or more over all sensors
ResumeRequests ==
    {q \in DatadumpRequests : q.args["limit"] > chunk_size /\ "sensors" \notin DOMAIN q.args}

InitResume == InitWith(ResumeRequests, {BigTables, BigNoHumidity})

NextResume ==
    \E r \in Run :
        \/ set_sensor_datadump(r)
        \/ get_observation_datadump(r)
        \/ datadump_drain(r)
        \/ store_chunk_commit(r)
        \/ store_chunk_rollback(r)
        \/ store_chunk_status(r)
        \/ get_observation_datadump_complete(r)
        \/ get_observation_datadump_rollback(r)
        \/ reinvoke(r)

SpecResume == InitResume /\ [][NextResume]_vars

(***************************************************************************)
(* One observation request whose filters name nodes, features and sensors  *)
(* the catalog does and does not hold, in either case.                     *)
(***************************************************************************)
PlanRequests ==
    { [endpoint |-> "observations", network_name |-> nn,
       args |-> MkArgs([nodes |-> no, features_of_interest |-> f, sensors |-> se,
                        start_datetime |-> Some(<<0, "+00:00">>), end_datetime |-> Some(<<4, "+00:00">>),
                        limit |-> Some(li), offset |-> Some(0)])] :
        nn \in {"net", "NET"},
        no \in {None, Some({"N1"}), Some({"zz"})},
        f \in {None, Some({"Temperature", "pressure"}), Some({"Humidity"})},
        se \in {None, Some({"TMP112", "hih"}), Some({"BMP180"}), Some({"zz"})},
        li \in {MaxLimit, 2 * MaxLimit} }

InitPlan == InitWith(PlanRequests, {SmallTables})

SpecPlan == InitPlan /\ [][NextFan]_vars

(***************************************************************************)
(* One observation request whose per-table queries may never return, with   *)
(* the request thread and every worker thread scheduled fairly.             *)
(***************************************************************************)
\* fetch_query_results: obs_query.all() never returns; the thread stays in it
fetch_query_results_hang(r, i) ==
    /\ pc[r] = "joining"
    /\ i \in DOMAIN threads[r]
    /\ threads[r][i].state = "started"
    /\ threads' = [threads EXCEPT ![r][i].state = "hung"]
    /\ UNCHANGED <<env, data, pc, planned, plan, results, response, store, job>>

\* the steps of worker i of request r
Worker(r, i) ==
    \/ fetch_query_results_all(r, i)
    \/ fetch_query_results_raise(r, i)
    \/ fetch_query_results_hang(r, i)
    \/ fetch_query_results_append(r, i)

\* the requests of FanRequests with the smaller limit
LiveRequests == {q \in FanRequests : q.args["limit"] = MaxLimit}

InitLive == InitWith(LiveRequests, {SmallTables})

NextLive ==
    \E r \in Run :
        \/ get_observations(r)
        \/ \E i \in 1..3 : fetch_query_results_all(r, i)
        \/ \E i \in 1..3 : fetch_query_results_raise(r, i)
        \/ \E i \in 1..3 : fetch_query_results_hang(r, i)
        \/ \E i \in 1..3 : fetch_query_results_append(r, i)
        \/ run_observation_queries(r)

SpecLive ==
    /\ InitLive
    /\ [][NextLive]_vars
    /\ \A r \in Run :
          /\ WF_vars(get_observations(r))
          /\ WF_vars(run_observation_queries(r))
          /\ \A i \in 1..3 : WF_vars(Worker(r, i))

(***************************************************************************)
(* Two requests handled at the same time, their steps interleaved: a        *)
(* datadump job next to another datadump job or an observation request.     *)
(***************************************************************************)
\* datadump requests of one and of two chunks over the temperature table
PairDumpRequests ==
    { [endpoint |-> "datadump", network_name |-> "net",
       args |-> MkArgs([features_of_interest |-> Some({"Temperature"}),
                        start_datetime |-> Some(<<0, "+00:00">>), end_datetime |-> Some(<<3, "">>),
                        limit |-> Some(li), offset |-> Some(0)])] :
        li \in {chunk_size + 1, 2 * (chunk_size + 1)} }

\* an observation request for the one pressure reading of the last instant
PairObservationRequests ==
    { [endpoint |-> "observations", network_name |-> "net",
       args |-> MkArgs([features_of_interest |-> Some({"pressure"}),
                        start_datetime |-> Some(<<3, "+00:00">>), end_datetime |-> Some(<<4, "+00:00">>),
                        limit |-> Some(MaxLimit), offset |-> Some(0)])] }

InitPair ==
    /\ warehouse = BigTables
    /\ nodes_default \in {"none", "index"}
    /\ \E d \in PairDumpRequests : \E q \in PairDumpRequests \cup PairObservationRequests :
          request = [r \in Run |-> IF r = 1 THEN d ELSE q]
    /\ data = [r \in Run |-> <<>>]
    /\ pc = [r \in Run |-> "received"]
    /\ planned = [r \in Run |-> NoResponse]
    /\ plan = [r \in Run |-> <<>>]
    /\ threads = [r \in Run |-> <<>>]
    /\ results = [r \in Run |-> <<>>]
    /\ response = [r \in Run |-> NoResponse]
    /\ datadump = <<>>
    /\ status = [t \in Tickets |-> None]
    /\ flags = [t \in Tickets |-> None]
    /\ job = [r \in Run |-> NoJob]

NextPair ==
    \E r \in Run :
        \/ get_observations(r)
        \/ \E i \in 1..3 : fetch_query_results_all(r, i)
        \/ \E i \in 1..3 : fetch_query_results_raise(r, i)
        \/ \E i \in 1..3 : fetch_query_results_append(r, i)
        \/ run_observation_queries(r)
        \/ set_sensor_datadump(r)
        \/ get_observation_datadump(r)
        \/ datadump_drain(r)
        \/ store_chunk_commit(r)
        \/ store_chunk_rollback(r)
        \/ store_chunk_status(r)
        \/ get_observation_datadump_complete(r)
        \/ get_observation_datadump_rollback(r)

SpecPair == InitPair /\ [][NextPair]_vars

(***************************************************************************)
(* Properties.                                                             *)
(***************************************************************************)
IsObservation(r) == request[r].endpoint = "observations"
IsDatadump(r) == request[r].endpoint = "datadump"
Terminal == {"done", "job_done", "job_raised"}

\* an observation request has been answered with status ok
Answered(r) == IsObservation(r) /\ pc[r] = "done" /\ response[r].code = 200

WindowStart(r) == Instant(request[r].args["start_datetime"])
WindowEnd(r) == Instant(request[r].args["end_datetime"])
ObjectTime(x) == parse(x.datetime).wall

\* C1: every record of an observation response has its datetime d in the
\* half-open window: start_datetime <= d < end_datetime.
C1_DatetimeInWindow ==
    \A r \in Run : Answered(r) =>
        \A i \in DOMAIN response[r].objects :
            /\ WindowStart(r) <= ObjectTime(response[r].objects[i])
            /\ ObjectTime(response[r].objects[i]) < WindowEnd(r)

\* a response with records, from a table that also holds a row at end_datetime
C1_Witness ==
    \E r \in Run :
        /\ Answered(r)
        /\ response[r].objects # <<>>
        /\ \E i \in DOMAIN plan[r] : \E k \in DOMAIN warehouse[plan[r][i].table] :
              /\ warehouse[plan[r][i].table][k].datetime = WindowEnd(r)
              /\ threads[r][i].fetched # <<>>

\* C2: the objects of an observation response are sorted non-decreasing by
\* parsed datetime.
C2_SortedByDatetime ==
    \A r \in Run : Answered(r) =>
        \A i \in 1..(Len(response[r].objects) - 1) :
            ObjectTime(response[r].objects[i]) <= ObjectTime(response[r].objects[i + 1])

\* a response holding records of two tables with different datetimes
C2_Witness ==
    \E r \in Run :
        /\ Answered(r)
        /\ \E i, k \in DOMAIN response[r].objects :
              /\ ObjectTime(response[r].objects[i]) < ObjectTime(response[r].objects[k])
              /\ response[r].objects[i].feature_of_interest
                    # response[r].objects[k].feature_of_interest

\* both executions answered, with the same plan and the same rows per worker
SameWorkerRows ==
    /\ Answered(1) /\ Answered(2)
    /\ plan[1] = plan[2]
    /\ \A i \in DOMAIN threads[1] :
          /\ threads[1][i].state = threads[2][i].state
          /\ threads[1][i].fetched = threads[2][i].fetched

\* the datetimes of the records of a response, in order
Datetimes(objects) == [i \in DOMAIN objects |-> ObjectTime(objects[i])]

\* C3 as stated: with the same rows per worker, the sorted output is the same
\* list whatever the order in which the workers appended.
C3_SameOutputAnyInterleaving ==
    SameWorkerRows => response[1].objects = response[2].objects

\* C3: with the same rows per worker, the sorted outputs hold the same records
\* the same number of times and the same sequence of datetimes; they can
\* differ only in the order of records with equal datetimes.
C3_SameOutputUpToTies ==
    SameWorkerRows =>
        /\ Datetimes(response[1].objects) = Datetimes(response[2].objects)
        /\ \A x \in Range(response[1].objects) \cup Range(response[2].objects) :
              Cardinality({i \in DOMAIN response[1].objects : response[1].objects[i] = x})
                = Cardinality({i \in DOMAIN response[2].objects : response[2].objects[i] = x})

\* two executions whose workers fetched the same rows of two tables and
\* appended them in different orders
C3_Witness ==
    /\ SameWorkerRows
    /\ results[1] # <<>>
    /\ \E i, k \in DOMAIN threads[1] :
          /\ i # k /\ threads[1][i].fetched # <<>> /\ threads[1][k].fetched # <<>>
    /\ \E i, k \in DOMAIN response[1].objects :
          ObjectTime(response[1].objects[i]) # ObjectTime(response[1].objects[k])
    /\ response[1].objects # response[2].objects

\* the rows of the DataDump table written for a ticket, but for the completion record
DataRows(t) == {i \in DOMAIN datadump : datadump[i].request = t /\ datadump[i].part # 0}
CompletionRows(t) == {i \in DOMAIN datadump : datadump[i].request = t /\ datadump[i].part = 0}

\* C4: a request whose feature maps to a table absent from the warehouse ends in
\* the 400 response naming the table, and no chunk, status or completion
\* record is created or modified.
C4_MissingTableIs400 ==
    \A r \in Run : (pc[r] \in Terminal /\ planned[r].code = 400) =>
        /\ response[r] = planned[r]
        /\ DataRows(Ticket(r)) = {}
        /\ CompletionRows(Ticket(r)) = {}
        /\ IsNone(status[Ticket(r)])
        /\ IsNone(flags[Ticket(r)])

\* C5: when the job completes, the parts persisted for its ticket are exactly
\* 1..total, each once, total being the chunk count stored with the chunks.
C5_PartsAreOneToTotal ==
    \A r \in Run : pc[r] = "job_done" =>
        \A c \in CompletionRows(Ticket(r)) :
            /\ {datadump[i].part : i \in DataRows(Ticket(r))} = 1..datadump[c].total
            /\ Cardinality(DataRows(Ticket(r))) = datadump[c].total

\* the sum of the per-table count estimates of the planned queries
Estimated(r) == SumSeq([i \in DOMAIN plan[r] |-> fast_count(warehouse, plan[r][i])])

\* C6: total = ceil(row_count / 1000), row_count being the sum of the per-table
\* estimates unless the request gives a limit, which then replaces it.
C6_TotalIsCeilOfRowCountOrLimit ==
    \A r \in Run : (IsDatadump(r) /\ pc[r] \in {"draining", "storing", "committed", "completing", "job_done"}) =>
        job[r].chunk_count =
            Ceil(IF "limit" \in DOMAIN request[r].args
                 THEN request[r].args["limit"]
                 ELSE Estimated(r), chunk_size)

\* C7: if a worker raised, the request does not end in a status ok response
\* built from the rows of the other workers.
C7_WorkerFailureSurfaces ==
    \A r \in Run :
        (IsObservation(r) /\ pc[r] = "done"
            /\ \E i \in DOMAIN threads[r] : threads[r][i].state = "raised")
        => response[r].status # "ok"

\* the number of times x occurs in the sequence s
Count(s, x) == Cardinality({i \in DOMAIN s : s[i] = x})

\* the formatted records of the rows worker i of run r fetched
Formatted(r, i) ==
    [k \in DOMAIN threads[r][i].fetched |->
        format_observation(threads[r][i].fetched[k], plan[r][i].table)]

\* C8: there is one worker per (query, table) pair, the response is built only
\* when every worker has ended, and when all succeed the response holds the
\* formatted record of every fetched row exactly once.
C8_JoinThenEveryRowOnce ==
    \A r \in Run : IsObservation(r) =>
        /\ (pc[r] \in {"joining", "done"} /\ planned[r].code # 400) => DOMAIN threads[r] = DOMAIN plan[r]
        /\ response[r] # NoResponse =>
              \A i \in DOMAIN threads[r] : threads[r][i].state \in {"finished", "raised"}
        /\ (Answered(r) /\ \A i \in DOMAIN threads[r] : threads[r][i].state # "raised") =>
              \A i \in DOMAIN threads[r] : \A k \in DOMAIN Formatted(r, i) :
                  /\ Count(response[r].objects, Formatted(r, i)[k])
                        = SumSeq([n \in DOMAIN threads[r] |-> Count(Formatted(r, n), Formatted(r, i)[k])])
                  /\ Len(response[r].objects)
                        = SumSeq([n \in DOMAIN threads[r] |-> Len(threads[r][n].fetched)])

\* a response built from the rows of two workers that both succeeded
C8_Witness ==
    \E r \in Run :
        /\ Answered(r)
        /\ Len(plan[r]) >= 2
        /\ \A i \in DOMAIN threads[r] : threads[r][i].state = "finished" /\ threads[r][i].fetched # <<>>

\* C9: the query echoed in a response holds no key whose value is None and no
\* key 'geom'.
C9_EchoedQueryHasNoNullNoGeom ==
    \A r \in Run : response[r] # NoResponse =>
        /\ "geom" \notin DOMAIN response[r].query
        /\ \A k \in DOMAIN response[r].query : ~IsNone(response[r].query[k])

\* the network of the catalog the request names, whatever the case it is written in
StoredNetwork(r) ==
    CHOOSE n \in {m.sensor_network : m \in NodeMeta} : Lower(n) = Lower(request[r].network_name)

NoNodesFilter(r) ==
    DOMAIN request[r].args \cap {"nodes", "node_id", "location_geom__within"} = {}

\* C10: without a nodes filter the node ids the planner resolves are the
\* catalog's node list of the network, compared lower-cased.
C10_EmptyFilterIsAllNodes ==
    \A r \in Run :
        ((IsObservation(r) \/ IsDatadump(r)) /\ NoNodesFilter(r)
            /\ pc[r] \in {"joining", "draining", "storing", "committed", "completing", "job_done", "job_raised"})
        => /\ Val(data[r]["nodes"]) = LowerSet(NodeMeta_index(StoredNetwork(r)))
           /\ \A i \in DOMAIN plan[r] :
                 Val(plan[r][i].nodes) = LowerSet(NodeMeta_index(StoredNetwork(r)))

\* a plan made for a request without nodes filter that writes the network in upper case
C10_Witness ==
    \E r \in Run :
        /\ IsObservation(r)
        /\ NoNodesFilter(r)
        /\ pc[r] = "joining"
        /\ request[r].network_name = "NET"
        /\ plan[r] # <<>>
        /\ Val(data[r]["nodes"]) = {"n1", "n2"}

\* the limit and offset the request asks for
RequestedLimit(r) == request[r].args["limit"]
RequestedOffset(r) == request[r].args["offset"]

\* x = floor(a / n), by its bounds
IsFloorOf(x, a, n) == x * n <= a /\ a < (x + 1) * n

\* C11: each of the N >= 1 per-table queries has limit floor(requested_limit / N)
\* and, when an offset is requested, offset floor(requested_offset / N); so a
\* response holds at most requested_limit records, and none when
\* requested_limit < N.
C11_PerTableShare ==
    \A r \in Run : ((IsObservation(r) \/ IsDatadump(r)) /\ plan[r] # <<>>) =>
        LET N == Len(plan[r])
        IN  /\ \A i \in DOMAIN plan[r] :
                  /\ IsFloorOf(plan[r][i].limit, RequestedLimit(r), N)
                  /\ IF RequestedOffset(r) # 0
                     THEN /\ ~IsNone(plan[r][i].offset)
                          /\ IsFloorOf(Val(plan[r][i].offset), RequestedOffset(r), N)
                     ELSE IsNone(plan[r][i].offset)
            /\ Answered(r) =>
                  /\ Len(response[r].objects) <= RequestedLimit(r)
                  /\ RequestedLimit(r) < N => response[r].objects = <<>>

\* a response of two tables that holds as many records as the limit allows,
\* of tables that hold more matching rows than their share
C11_Witness ==
    \E r \in Run :
        /\ Answered(r)
        /\ Len(plan[r]) = 2
        /\ RequestedOffset(r) # 0
        /\ Len(response[r].objects) = RequestedLimit(r)
        /\ \A i \in DOMAIN plan[r] : Len(Matching(warehouse, plan[r][i])) > plan[r][i].limit

\* the sensors the planner resolves: those the request names, or the network's
TargetSensors(r) ==
    IF "sensors" \in DOMAIN request[r].args
    THEN LowerSet(request[r].args["sensors"])
    ELSE Sensor_index(request[r].network_name)

\* the features the target sensors report: the lower-cased prefix of each of
\* their observed properties
ReportedFeatures(r) ==
    UNION { {Lower(x.observed_properties[k][1]) : k \in DOMAIN x.observed_properties} :
              x \in {y \in Sensor : Lower(y.name) \in TargetSensors(r)} }

\* the tables of the plan
PlannedTables(r) == {plan[r][i].table : i \in DOMAIN plan[r]}

\* the planner returned its list of queries for a request that names features
PlannedFor(r) ==
    /\ IsObservation(r)
    /\ pc[r] = "joining"
    /\ "features_of_interest" \in DOMAIN request[r].args

\* C12: the tables the planner queries are exactly the requested features that
\* the target sensors report, lower-cased; each table is queried once.
C12_TablesAreRequestedAndReported ==
    \A r \in Run : PlannedFor(r) =>
        /\ PlannedTables(r) = LowerSet(request[r].args["features_of_interest"]) \cap ReportedFeatures(r)
        /\ Cardinality(PlannedTables(r)) = Len(plan[r])

\* a plan that leaves out a requested feature no target sensor reports and a
\* reported feature the request does not name
C12_Witness ==
    \E r \in Run :
        /\ PlannedFor(r)
        /\ plan[r] # <<>>
        /\ LowerSet(request[r].args["features_of_interest"]) \ PlannedTables(r) # {}
        /\ ReportedFeatures(r) \ PlannedTables(r) # {}

\* the progress.done of a ticket's status, 0 before the first status write
ProgressDone(t) ==
    IF IsNone(status[t]) \/ IsNone(Val(status[t]).progress) THEN 0
    ELSE Val(Val(status[t]).progress).done

\* the data chunks stored for a ticket with part number n
PartRows(t, n) == {i \in DataRows(t) : datadump[i].part = n}

\* C14: a job re-invoked with its ticket after a failed write ends with each
\* part number stored once.
C14_ResumeStoresEachPartOnce ==
    \A r \in Run : pc[r] = "job_done" =>
        \A i \in DataRows(Ticket(r)) : Cardinality(PartRows(Ticket(r), datadump[i].part)) = 1

\* C13: when the commit of a chunk fails, the exception goes to the caller and
\* the step changes neither the stored chunks nor the job status nor the
\* suppress-cleanup flag.
C13_FailedCommitChangesNothing ==
    [][\A r \in Run : (pc[r] = "storing" /\ pc'[r] # "committed") =>
          /\ pc'[r] \in {"storing", "job_raised"}
          /\ datadump' = datadump
          /\ status' = status
          /\ flags' = flags]_vars

\* a job that raised at the commit of its chunk k >= 2: parts 1..k-1 are stored
\* and the status is the one written after part k-1
C13_Witness ==
    \E r \in Run :
        /\ IsDatadump(r)
        /\ pc[r] = "job_raised"
        /\ job[r].chunk_number >= 2
        /\ ~job[r].final
        /\ {datadump[i].part : i \in DataRows(Ticket(r))} = 1..(job[r].chunk_number - 1)
        /\ ProgressDone(Ticket(r)) = job[r].chunk_number - 1

\* C15: in every state of a datadump job, between the commit of a chunk and
\* the status write too, progress.done is at most the number of data chunks
\* stored for the ticket.
C15_ProgressNeverOverstated ==
    \A t \in Tickets : ProgressDone(t) <= Cardinality(DataRows(t))

\* the state between the commit of part k >= 2 and its status write: the
\* status still tells k - 1
C15_Witness ==
    \E r \in Run :
        /\ IsDatadump(r)
        /\ pc[r] = "committed"
        /\ job[r].chunk_number >= 2
        /\ Cardinality(DataRows(Ticket(r))) = job[r].chunk_number
        /\ ProgressDone(Ticket(r)) = job[r].chunk_number - 1

\* the data chunk stored last for a ticket
LastPart(t) == datadump[CHOOSE i \in DataRows(t) : \A k \in DataRows(t) : k <= i]

\* C16: once store_chunk has returned for part n, the status holds progress
\* {done: n, total: chunk_count} and the flag "<ticket>_suppresscleanup" is
\* true with a TTL of 10800 seconds; the status is written after the commit,
\* so between the two it still tells of the part before.
C16_ChunkWriteSetsProgressAndFlag ==
    \A r \in Run : (IsDatadump(r) /\ DataRows(Ticket(r)) # {}) =>
        LET t == Ticket(r)
            n == LastPart(t).part
        IN  IF pc[r] = "committed"
            THEN ProgressDone(t) = n - 1
            ELSE /\ Val(status[t]).progress = Some([done |-> n, total |-> LastPart(t).total])
                 /\ LastPart(t).total = job[r].chunk_count
                 /\ flags[t] = Some([value |-> TRUE, ttl |-> 10800])

\* store_chunk has returned for the second part of a job
C16_Witness ==
    \E r \in Run :
        /\ IsDatadump(r)
        /\ pc[r] = "draining"
        /\ Cardinality(DataRows(Ticket(r))) = 2
        /\ ProgressDone(Ticket(r)) = 2
        /\ flags[Ticket(r)] # None

\* C17: at every point of a job run the parts stored so far are 1..k, each
\* once, and every stored chunk, the status and the completion record carry
\* the total the run computed before its first chunk.
C17_PartsContiguousTotalFixed ==
    \A r \in Run : IsDatadump(r) =>
        LET t == Ticket(r)
        IN  /\ {datadump[i].part : i \in DataRows(t)} = 1..Cardinality(DataRows(t))
            /\ \A i \in DataRows(t) \cup CompletionRows(t) : datadump[i].total = job[r].chunk_count
            /\ (~IsNone(status[t]) /\ ~IsNone(Val(status[t]).progress)) =>
                  Val(Val(status[t]).progress).total = job[r].chunk_count

\* a completed job of three chunks
C17_Witness ==
    \E r \in Run :
        /\ pc[r] = "job_done"
        /\ Cardinality(DataRows(Ticket(r))) = 3
        /\ CompletionRows(Ticket(r)) # {}
        /\ ProgressDone(Ticket(r)) = 3

\* the validator reported errors for the request
Rejected(r) == request[r] # NoRequest /\ errors(request[r]) # <<>>

\* C18: a request the validator rejects ends in the 400 error envelope that
\* lists the errors, and nothing else happens: no query is planned or run and
\* no datadump job is queued.
C18_ValidationErrorIs400 ==
    \A r \in Run : Rejected(r) =>
        /\ pc[r] \in {"received", "done"}
        /\ pc[r] = "done" =>
              /\ response[r].code = 400
              /\ response[r].status = "error"
              /\ response[r].message = errors(request[r])
              /\ response[r].objects = <<>>
        /\ data[r] = <<>> /\ planned[r] = NoResponse
        /\ plan[r] = <<>> /\ threads[r] = <<>> /\ results[r] = <<>>
        /\ job[r] = NoJob
        /\ IsNone(status[Ticket(r)]) /\ IsNone(flags[Ticket(r)])
        /\ datadump = <<>>

\* a rejected datadump request that has been answered
C18_Witness ==
    \E r \in Run :
        /\ Rejected(r)
        /\ IsDatadump(r)
        /\ pc[r] = "done"
        /\ response[r].code = 400

\* the nodes and the sensors of the catalog that the filters of the request select
ResolvedNodes(r) ==
    { n \in NodeMeta :
        /\ Lower(n.sensor_network) = Lower(request[r].network_name)
        /\ "nodes" \in DOMAIN request[r].args => Lower(n.id) \in LowerSet(request[r].args["nodes"]) }
ResolvedSensors(r) == {x \in Sensor : Lower(x.name) \in TargetSensors(r)}

\* C19: when the node filter or the sensor filter resolves to nothing, the
\* planner still returns its list of queries, the empty list when no table is
\* resolved, and the request ends in a status ok response, with no objects
\* when the list is empty.
C19_EmptyFilterStillPlans ==
    \A r \in Run :
        (IsObservation(r) /\ pc[r] \in {"joining", "done"}
            /\ (ResolvedNodes(r) = {} \/ ResolvedSensors(r) = {}))
        => /\ planned[r] = NoResponse
           /\ ResolvedSensors(r) = {} => plan[r] = <<>>
           /\ pc[r] = "done" =>
                 /\ response[r].code = 200 /\ response[r].status = "ok"
                 /\ plan[r] = <<>> => response[r].objects = <<>>

\* an answered request whose nodes and sensors are unknown to the catalog
C19_Witness ==
    \E r \in Run :
        /\ Answered(r)
        /\ ResolvedNodes(r) = {}
        /\ ResolvedSensors(r) = {}
        /\ plan[r] = <<>>
        /\ response[r].objects = <<>>

\* args.data that names only the network
OnlyNetwork(name) == [network_name |-> Some(name)]

\* C20: every catalog lookup gives the same result for the network name as
\* the request writes it and for its lower-case variant.
C20_LookupsIgnoreCase ==
    \A r \in Run : request[r] # NoRequest =>
        LET name == request[r].network_name
        IN  /\ node_metadata_query(OnlyNetwork(name)) = node_metadata_query(OnlyNetwork(Lower(name)))
            /\ FeatureMeta_index(name) = FeatureMeta_index(Lower(name))
            /\ NodeMeta_all(name) = NodeMeta_all(Lower(name))
            /\ NodeMeta_index(name) = NodeMeta_index(Lower(name))

(***************************************************************************)
(* The methods of the catalog classes that resolve features.  In these      *)
(* definitions a string is the tuple of its parts between dots, so that     *)
(* "temperature" is <<"temperature">> and "temperature.temperature" is      *)
(* <<"temperature", "temperature">>.                                        *)
(***************************************************************************)
\* sensor__feature_to_network: the rows (feature, network)
feature_to_network ==
    { <<"temperature", "net">>, <<"pressure", "net">>, <<"humidity", "net">>,
      <<"Temperature", "net">>, <<"pressure", "other">> }

\* the row of sensor__sensor_metadata with this name
SensorNamed(name) == CHOOSE x \in Sensor : x.name = name

\* SensorMeta.tree(): {v: k for k, v in observed_properties.items()}
SensorMeta_tree(s) ==
    [v \in {s.observed_properties[k] : k \in DOMAIN s.observed_properties} |->
        CHOOSE k \in DOMAIN s.observed_properties : s.observed_properties[k] = v]

\* SensorMeta.features(): {e.split('.')[0] for e in self.tree()}
SensorMeta_features(s) == {<<Head(e)>> : e \in DOMAIN SensorMeta_tree(s)}

\* NodeMeta.tree(): {s.name: s.tree() for s in self.sensors}
NodeMeta_tree(n) == [name \in n.sensors |-> SensorMeta_tree(SensorNamed(name))]

\* NodeMeta.features(): the keys of the trees of the node's sensors, unsplit
NodeMeta_features(n) == UNION {DOMAIN NodeMeta_tree(n)[name] : name \in DOMAIN NodeMeta_tree(n)}

\* NetworkMeta.tree(): {n.id: n.tree() for n in self.nodes}
NetworkMeta_tree(network) ==
    [id \in {n.id : n \in {x \in NodeMeta : x.sensor_network = network}} |->
        NodeMeta_tree(CHOOSE n \in NodeMeta : n.sensor_network = network /\ n.id = id)]

\* FeatureMeta.sensors() of the feature called name
FeatureMeta_sensors(name) ==
    UNION { UNION { {sensor \in DOMAIN NetworkMeta_tree(network)[id] :
                        <<name>> \in {<<Head(p)>> : p \in DOMAIN NetworkMeta_tree(network)[id][sensor]}}
                    : id \in DOMAIN NetworkMeta_tree(network) }
            : network \in {fn[2] : fn \in {x \in feature_to_network : x[1] = name}} }

\* the nodes of the network a request names, whatever the case of the name
NodesOfRequest(r) ==
    {n \in NodeMeta : request[r] # NoRequest
                      /\ Lower(n.sensor_network) = Lower(request[r].network_name)}

\* C21: for every node of the requested network, NodeMeta.features() is the
\* union of SensorMeta.features() of the node's sensors (the prefixes before
\* the first '.' of the observed-property keys), and a sensor attached to a
\* node of one of a feature's networks is in FeatureMeta.sensors() of the
\* feature exactly when the feature's name is in the sensor's features().
C21_FeaturesAgreeAcrossLevels ==
    \A r \in Run : \A n \in NodesOfRequest(r) :
        /\ NodeMeta_features(n) = UNION {SensorMeta_features(SensorNamed(s)) : s \in n.sensors}
        /\ \A fn \in feature_to_network : \A s \in n.sensors :
              fn[2] = n.sensor_network =>
                 (s \in FeatureMeta_sensors(fn[1]) <=> <<fn[1]>> \in SensorMeta_features(SensorNamed(s)))

\* the tables the planner looks up for a request: the features it asks for, or
\* those of the network, that the target sensors report
CandidateTables(r) ==
    (IF "features_of_interest" \in DOMAIN request[r].args
     THEN LowerSet(request[r].args["features_of_interest"])
     ELSE FeatureMeta_index(request[r].network_name)) \cap ReportedFeatures(r)

\* the candidate tables that the warehouse does not hold
MissingTables(r) == CandidateTables(r) \ DOMAIN warehouse

\* the request goes through the planner and one of its tables is missing
PlansMissingTable(r) ==
    /\ request[r].endpoint \in {"observations", "datadump"}
    /\ errors(request[r]) = <<>>
    /\ MissingTables(r) # {}

\* C22: when a candidate table is missing, the planner returns no query at
\* all, whichever table the loop meets first: no (query, table) pair exists
\* for the tables that are there, no worker is started, no row is fetched or
\* drained, and what the planner returned names a missing table.
C22_MissingTableNoPartialPlan ==
    \A r \in Run : PlansMissingTable(r) =>
        /\ plan[r] = <<>>
        /\ threads[r] = <<>>
        /\ results[r] = <<>>
        /\ job[r] = NoJob
        /\ DataRows(Ticket(r)) = {}
        /\ pc[r] \in {"received", "queued", "done", "job_raised"}
        /\ pc[r] \in {"done", "job_raised"} =>
              /\ planned[r].code = 400
              /\ \E f \in MissingTables(r) : planned[r].message = <<"Table", f, "not found">>

\* a request that ended at the planner with one table missing and two present
C22_Witness ==
    \E r \in Run :
        /\ PlansMissingTable(r)
        /\ IsObservation(r)
        /\ pc[r] = "done"
        /\ MissingTables(r) = {"humidity"}
        /\ CandidateTables(r) \ MissingTables(r) = {"temperature", "pressure"}
        /\ planned[r].code = 400

\* the number of rows the windowed queries of the plan yield, table after table
Drained(r) == SumSeq([i \in DOMAIN plan[r] |-> windowed_query(warehouse, plan[r][i])])

\* the rows of the data chunk stored for a ticket as part n: the positions
\* <<first, last>> in the sequence of the drained rows
ChunkRows(t, n) == datadump[CHOOSE i \in PartRows(t, n) : TRUE].data.rows

\* C23: when the job completes, the stored chunks in part order are the
\* sequence of the drained rows cut into consecutive pieces: part 1 starts at
\* the first row, every part starts where the one before ended, the last part
\* ends at the last row, each part is stored once, and so every row is in
\* exactly one chunk, those a table left in the buffer included.
C23_ChunksConcatenateToDrainedRows ==
    \A r \in Run : pc[r] = "job_done" =>
        LET t == Ticket(r)
            k == Cardinality(DataRows(t))
        IN  /\ \A n \in 1..k : Cardinality(PartRows(t, n)) = 1
            /\ k = 0 <=> Drained(r) = 0
            /\ k > 0 => /\ ChunkRows(t, 1)[1] = 1
                        /\ ChunkRows(t, k)[2] = Drained(r)
            /\ \A n \in 1..k : ChunkRows(t, n)[1] <= ChunkRows(t, n)[2]
            /\ \A n \in 1..(k - 1) : ChunkRows(t, n + 1)[1] = ChunkRows(t, n)[2] + 1

\* a completed job with a chunk that holds the last rows of the first table
\* and the first rows of the second
C23_Witness ==
    \E r \in Run :
        /\ pc[r] = "job_done"
        /\ Len(plan[r]) >= 2
        /\ Cardinality(DataRows(Ticket(r))) >= 2
        /\ \E n \in 1..Cardinality(DataRows(Ticket(r))) :
              /\ ChunkRows(Ticket(r), n)[1] <= windowed_query(warehouse, plan[r][1])
              /\ ChunkRows(Ticket(r), n)[2] > windowed_query(warehouse, plan[r][1])

\* the job of run r has computed its total and entered its loop
Running(r) == pc[r] \in {"draining", "storing", "committed", "completing", "job_done"}

\* C24: in a job run the total is computed before the first chunk is written
\* and every record carries it; the data chunks are written in the order of
\* their parts 1, 2, 3, ...; the completion record (part 0) is written once,
\* after every data chunk, when the chunks hold all the drained rows; a run
\* that raised has written no completion record.
C24_JobRunOrder ==
    \A r \in Run : IsDatadump(r) =>
        LET t == Ticket(r)
            k == Cardinality(DataRows(t))
        IN  /\ Running(r) => job[r].chunk_count = ChunkCount(job[r].row_count)
            /\ DataRows(t) \cup CompletionRows(t) # {} => Running(r) \/ pc[r] = "job_raised"
            /\ \A i \in DataRows(t) \cup CompletionRows(t) :
                  datadump[i].total = ChunkCount(job[r].row_count)
            /\ \A i \in DataRows(t) :
                  datadump[i].part = Cardinality({x \in DataRows(t) : x <= i})
            /\ \A c \in CompletionRows(t) :
                  /\ \A i \in DataRows(t) : i < c
                  /\ pc[r] = "job_done"
                  /\ CompletionRows(t) = {c}
                  /\ IF k = 0 THEN Drained(r) = 0 ELSE ChunkRows(t, k)[2] = Drained(r)
            /\ pc[r] = "job_raised" => CompletionRows(t) = {}
            /\ pc[r] = "job_done" => CompletionRows(t) # {}

\* a completed job: two data chunks, then the completion record
C24_Witness ==
    \E r \in Run :
        /\ pc[r] = "job_done"
        /\ Len(datadump) = 3
        /\ datadump[1].part = 1 /\ datadump[2].part = 2 /\ datadump[3].part = 0
        /\ datadump[3].total = job[r].chunk_count

\* a worker of the request is in a query that never returns
Hung(r) == \E i \in DOMAIN threads[r] : threads[r][i].state = "hung"

\* C25: an observation request returns its response exactly when every worker
\* ends: a response is never built while a worker is in a query that does not
\* return, whatever the other workers did, every response follows the end of
\* all workers, and a request none of whose queries hangs does get its
\* response.
C25_ResponseIffWorkersEnd ==
    /\ [](\A r \in Run : Hung(r) => pc[r] = "joining" /\ response[r] = NoResponse)
    /\ [](\A r \in Run : (IsObservation(r) /\ pc[r] = "done") => Joined(r))
    /\ \A r \in Run : (pc[r] = "received") ~> (pc[r] = "done" \/ Hung(r))

\* a request blocked in join: one worker hangs, the other has appended its
\* rows and finished
C25_Witness ==
    \E r \in Run :
        /\ pc[r] = "joining"
        /\ Len(threads[r]) = 2
        /\ \E i, k \in DOMAIN threads[r] :
              /\ threads[r][i].state = "hung"
              /\ threads[r][k].state = "finished"
              /\ threads[r][k].fetched # <<>>
        /\ results[r] # <<>>
        /\ response[r] = NoResponse

\* the request-local state of run r
Local(r) == <<pc[r], data[r], planned[r], plan[r], threads[r], results[r], response[r], job[r]>>

\* C26: no step deletes or overwrites a stored record: the DataDump table
\* only grows at its end; and a step of the observation query path leaves
\* the DataDump table, every job status and every suppress-cleanup flag as
\* they are.
C26_QueryPathLeavesStoreChunksOnlyAdded ==
    [][/\ Len(datadump') >= Len(datadump)
       /\ SubSeq(datadump', 1, Len(datadump)) = datadump
       /\ \A r \in Run : (IsObservation(r) /\ Local(r)' # Local(r)) =>
             /\ datadump' = datadump
             /\ status' = status
             /\ flags' = flags]_vars

\* an observation request answered while the job of the other request has
\* stored a chunk, set its progress and its flag, and is not finished
C26_Witness ==
    \E r \in Run : \E o \in Run :
        /\ IsObservation(r) /\ IsDatadump(o)
        /\ pc[r] = "done" /\ response[r].code = 200 /\ response[r].objects # <<>>
        /\ pc[o] = "draining"
        /\ DataRows(Ticket(o)) # {}
        /\ ProgressDone(Ticket(o)) = 1
        /\ flags[Ticket(o)] # None

\* the records of the DataDump table stored under ticket t, in commit order
RowsOf(rows, t) ==
    LET Mine(x) == x.request = t
    IN  SelectSeq(rows, Mine)

\* C30: two job runs with different tickets, their steps interleaved in any
\* way: every record a run adds is stored under the run's own ticket, and a
\* step of a run leaves the records, the status and the flag of the other
\* ticket as they are.
C30_RunsKeepToTheirTicket ==
    [][\A r \in Run : (Local(r)' # Local(r)) =>
          /\ \A i \in (Len(datadump) + 1)..Len(datadump') : datadump'[i].request = Ticket(r)
          /\ \A t \in Tickets \ {Ticket(r)} :
                /\ RowsOf(datadump', t) = RowsOf(datadump, t)
                /\ status'[t] = status[t]
                /\ flags'[t] = flags[t]]_vars

\* two jobs that both completed, the chunks of one stored between the chunks
\* of the other
C30_Witness ==
    /\ pc[1] = "job_done" /\ pc[2] = "job_done"
    /\ \E i, k, m \in DOMAIN datadump :
          /\ i < k /\ k < m
          /\ datadump[i].request = "t1" /\ datadump[k].request = "t2" /\ datadump[m].request = "t1"
          /\ datadump[i].part = 1 /\ datadump[k].part = 1 /\ datadump[m].part = 2
    /\ ProgressDone("t1") = 2
    /\ ProgressDone("t2") = Cardinality(DataRows("t2"))

\* the lower-cased ids of the nodes of the request's network that pass its
\* node-id list and its geometry filter
FilteredNodeIds(r) ==
    { Lower(n.id) : n \in
        { m \in NodeMeta :
            /\ Lower(m.sensor_network) = Lower(request[r].network_name)
            /\ "nodes" \in DOMAIN request[r].args =>
                  Lower(m.id) \in LowerSet(request[r].args["nodes"])
            /\ "location_geom__within" \in DOMAIN request[r].args =>
                  ST_Within(m.location, request[r].args["location_geom__within"]) } }

\* C27: every record an observation request returns has a node_id whose
\* lower-case form is among the nodes its filters resolve within the network;
\* when they resolve no node, no record is returned.
C27_RecordsAreOfResolvedNodes ==
    \A r \in Run : (IsObservation(r) /\ pc[r] = "done" /\ response[r].code = 200) =>
        \A i \in DOMAIN response[r].objects :
            Lower(response[r].objects[i].node_id) \in FilteredNodeIds(r)

\* the progress of a ticket's status, None before the first write of store_chunk
Progress(t) == IF IsNone(status[t]) THEN None ELSE Val(status[t]).progress

\* C28: every progress that store_chunk writes to a job status has
\* done <= total, whatever the count of the rows, the rows drained and the limit.
C28_DoneAtMostTotal ==
    \A t \in Tickets : ~IsNone(Progress(t)) => Val(Progress(t)).done <= Val(Progress(t)).total

\* the status after the last of three chunks of a job whose total is three
C28_Witness ==
    \E r \in Run :
        /\ IsDatadump(r)
        /\ pc[r] = "completing"
        /\ Progress(Ticket(r)) = Some([done |-> 3, total |-> 3])
        /\ request[r].args["limit"] < Estimated(r)

\* the number of records of the data chunk at row i of the DataDump table
ChunkLen(i) == datadump[i].data.rows[2] - datadump[i].data.rows[1] + 1

\* C29: a chunk stored from inside the loop holds chunk_size + 1 = 1001
\* records and the chunk stored after the loop holds 1 to 1000, so no stored
\* chunk is empty, every chunk but the last of a ticket holds 1001 records,
\* and a completed job that drained R rows has stored ceil(R / 1001) chunks.
C29_ChunkSizes ==
    \A r \in Run : IsDatadump(r) =>
        LET t == Ticket(r)
            len == job[r].hi - job[r].lo + 1
        IN  /\ pc[r] \in {"storing", "committed"} =>
                 IF job[r].final THEN len >= 1 /\ len <= chunk_size
                 ELSE len = chunk_size + 1
            /\ \A i \in DataRows(t) :
                  /\ ChunkLen(i) >= 1 /\ ChunkLen(i) <= chunk_size + 1
                  /\ (\E k \in DataRows(t) : k > i) => ChunkLen(i) = chunk_size + 1
            /\ pc[r] = "job_done" =>
                  Cardinality(DataRows(t)) = Ceil(Drained(r), chunk_size + 1)

\* a completed job of two chunks of 1001 records and a last one of fewer
C29_Witness ==
    \E r \in Run :
        /\ pc[r] = "job_done"
        /\ Cardinality(DataRows(Ticket(r))) = 3
        /\ \E i \in DataRows(Ticket(r)) : datadump[i].part = 1 /\ ChunkLen(i) = chunk_size + 1
        /\ \E i \in DataRows(Ticket(r)) :
              datadump[i].part = 3 /\ ChunkLen(i) < chunk_size /\ ChunkLen(i) > 0
====
